---- MODULE Spec2Model ----
(***************************************************************************)
(* Graph indexes and the support / confidence evaluators of utils.py.      *)
(*                                                                         *)
(* A graph is a set of triples <<lhs, predicate, rhs>>.  The three index   *)
(* builders turn it into predicate_map, object_type_map and data_type_map; *)
(* confidence_of and support_of then read (and, through the defaultdict    *)
(* containers, also write) those indexes.                                  *)
(***************************************************************************)
EXTENDS Integers, FiniteSets, Sequences, TLC

VARIABLES g, built, predicate_map, object_type_map, data_type_map, last

vars == <<g, built, predicate_map, object_type_map, data_type_map, last>>

(***************************************************************************)
(* Bounds of the explored inputs.                                          *)
(***************************************************************************)
MaxTriples == 4
MaxDomain == 2
MaxSupport == 2
MaxConnections == 2

(***************************************************************************)
(* rdflib terms.  URIRef and Literal are disjoint term types; a Literal    *)
(* carries a datatype and a language attribute, either of which may be     *)
(* None.                                                                   *)
(***************************************************************************)
None == "None"
RDF_type == "rdf:type"
RDFS_Class == "rdfs:Class"
XSD_string == "xsd:string"
XSD_anyType == "xsd:anyType"

URIRefs == {"a", "b", "x", "T", RDFS_Class}
Literals == {"l1", "l2", "l3"}

\* Literal.datatype : l3 is "l3"^^xsd:string, the others carry no datatype
datatype(o) == IF o = "l3" THEN XSD_string ELSE None
\* Literal.language : l2 is "l2"@en
language(o) == IF o = "l2" THEN "en" ELSE None

\* the triples a graph is drawn from
Universe ==
    { <<"a", "p1", "x">>, <<"b", "p1", "x">>, <<"a", "p1", "b">>,
      <<"x", "p2", "l1">>, <<"b", "p2", "l1">>,
      <<"x", "p2", "l2">>, <<"x", "p2", "l3">>,
      <<"x", RDF_type, "T">> }

Graphs == { G \in SUBSET Universe : Cardinality(G) <= MaxTriples }

\* all orders in which a set can be iterated
Orders(S) ==
    { s \in [1..Cardinality(S) -> S] : \A i, j \in DOMAIN s : i # j => s[i] # s[j] }

\* dict(d, k=v) : d with d[k] = v
Put(d, k, v) == (k :> v) @@ d

(***************************************************************************)
(* Index Builder                                                           *)
(***************************************************************************)
\* g.subjects(), g.objects()
subjects(G) == { t[1] : t \in G }
objects(G) == { t[3] : t \in G }

\* the candidates of g.value(e, p): any one object of a triple (e, p, _), or None
value(G, e, p) ==
    LET os == { t[3] : t \in { u \in G : u[1] = e /\ u[2] = p } }
    IN  IF os = {} THEN {None} ELSE os

generate_predicate_map(G) ==
    [ predicate \in { t[2] : t \in G } |->
        [ forwards  |-> [ lhs \in { t[1] : t \in { u \in G : u[2] = predicate } } |->
                            { t[3] : t \in { u \in G : u[1] = lhs /\ u[2] = predicate } } ],
          backwards |-> [ rhs \in { t[3] : t \in { u \in G : u[2] = predicate } } |->
                            { t[1] : t \in { u \in G : u[3] = rhs /\ u[2] = predicate } } ] ] ]

\* val[e] is what g.value(e, RDF.type) returned for subject e
generate_object_type_map(G, val) ==
    LET es == subjects(G) \cap URIRefs
        ctype(e) == IF val[e] = None THEN RDFS_Class ELSE val[e]
    IN  ("object-to-type" :> [ e \in es |-> ctype(e) ]) @@
        ("type-to-object" :> [ t \in { ctype(e) : e \in es } |->
                                 { e \in es : ctype(e) = t } ])

\* one iteration of the loop over g.objects()
data_type_step(m, o) ==
    IF o \notin Literals THEN m
    ELSE LET dtype == IF datatype(o) # None THEN datatype(o)
                      ELSE IF language(o) # None THEN XSD_string ELSE XSD_anyType
             \* the test looks at the keys of the outer dict
             t2o == IF dtype \notin DOMAIN m
                    THEN Put(m["type-to-object"], dtype, {})
                    ELSE m["type-to-object"]
         IN  ("object-to-type" :> Put(m["object-to-type"], o, dtype)) @@
             ("type-to-object" :> Put(t2o, dtype, t2o[dtype] \cup {o}))

RECURSIVE data_type_loop(_, _, _)
data_type_loop(m, os, i) ==
    IF i > Len(os) THEN m ELSE data_type_loop(data_type_step(m, os[i]), os, i + 1)

\* os is the order in which g.objects() yields the objects (an object yielded
\* again changes nothing unless another one of its datatype came in between)
generate_data_type_map(os) ==
    data_type_loop(("object-to-type" :> <<>>) @@ ("type-to-object" :> <<>>), os, 1)

(***************************************************************************)
(* Clause structures: an assertion is (predicate, rhs); rhs is a concrete  *)
(* term or a type variable carrying a class or a datatype.  An identity    *)
(* assertion is the root of a pattern and is never looked up by predicate. *)
(***************************************************************************)
Term(u) == [ kind |-> "Term", type |-> u ]
ObjectTypeVariable(t) == [ kind |-> "ObjectTypeVariable", type |-> t ]
DataTypeVariable(t) == [ kind |-> "DataTypeVariable", type |-> t ]

Assertion(predicate, rhs) == [ kind |-> "Assertion", predicate |-> predicate, rhs |-> rhs ]
IdentityAssertion == [ kind |-> "IdentityAssertion", predicate |-> None, rhs |-> Term(None) ]

(***************************************************************************)
(* defaultdict(lambda: set(), d): d[k] of a missing key returns a new      *)
(* empty set and stores it under k.                                        *)
(***************************************************************************)
Read(d, k) == IF k \in DOMAIN d THEN d[k] ELSE {}
Touch(d, k) == IF k \in DOMAIN d THEN d ELSE Put(d, k, {})

\* predicate_map after evaluating predicate_map[p][dir][k]
Touched(pm, p, dir, k) == [ pm EXCEPT ![p][dir] = Touch(@, k) ]

\* A set as the sequence in which a loop visits it, for the loops whose result
\* and whose writes do not depend on the order: the loop over the range in a
\* callee (every element is already a key of the connection's forwards index,
\* so no key is stored before a KeyError) and the sums and unions over the range.
SetToSeq(S) == CHOOSE s \in Orders(S) : TRUE
Elements(s) == { s[i] : i \in DOMAIN s }

(***************************************************************************)
(* Evaluator results.  raised = TRUE stands for a KeyError leaving the     *)
(* call; assertion_domain is the caller's domain set as the call left it.  *)
(***************************************************************************)
Return(pm, support, domain, dom) ==
    [ predicate_map |-> pm, raised |-> FALSE, support |-> support,
      domain |-> domain, assertion_domain |-> dom ]
Raise(pm, dom) ==
    [ predicate_map |-> pm, raised |-> TRUE, support |-> 0,
      domain |-> {}, assertion_domain |-> dom ]

\* holds_step with a concrete rhs matched by any edge of the predicate
holds_step_any_edge(pm, otm, dtm, assertion, entity) ==
    IF assertion.predicate \notin DOMAIN pm
    THEN [ raised |-> TRUE, predicate_map |-> pm, n |-> 0 ]
    ELSE LET res == Read(pm[assertion.predicate].forwards, entity)
             pm1 == Touched(pm, assertion.predicate, "forwards", entity)
             rhs == assertion.rhs
             o2t == IF rhs.kind = "ObjectTypeVariable"
                    THEN otm["object-to-type"] ELSE dtm["object-to-type"]
         IN  IF rhs.kind = "Term"
             THEN [ raised |-> FALSE, predicate_map |-> pm1,
                    n |-> IF res # {} THEN 1 ELSE 0 ]
             ELSE IF \E resource \in res : resource \notin DOMAIN o2t
             THEN [ raised |-> TRUE, predicate_map |-> pm1, n |-> 0 ]
             ELSE [ raised |-> FALSE, predicate_map |-> pm1,
                    n |-> Cardinality({ resource \in res : o2t[resource] = rhs.type }) ]

\* The body of "for entity in assertion_domain" in the three rhs branches; n is
\* what the iteration adds to the counter.  The class of a variable is the
\* URIRef object the index holds, so "is" and "==" agree on it.  A resource
\* without an entry in the plain dict object-to-type raises KeyError.
holds_step(pm, otm, dtm, assertion, entity) ==
    IF assertion.predicate \notin DOMAIN pm
    THEN [ raised |-> TRUE, predicate_map |-> pm, n |-> 0 ]
    ELSE LET res == Read(pm[assertion.predicate].forwards, entity)
             pm1 == Touched(pm, assertion.predicate, "forwards", entity)
             rhs == assertion.rhs
             o2t == IF rhs.kind = "ObjectTypeVariable"
                    THEN otm["object-to-type"] ELSE dtm["object-to-type"]
         IN  IF rhs.kind = "Term"
             THEN [ raised |-> FALSE, predicate_map |-> pm1,
                    n |-> IF rhs.type \in res THEN 1 ELSE 0 ]
             ELSE IF \E resource \in res : resource \notin DOMAIN o2t
             THEN [ raised |-> TRUE, predicate_map |-> pm1, n |-> 0 ]
             ELSE [ raised |-> FALSE, predicate_map |-> pm1,
                    n |-> Cardinality({ resource \in res : o2t[resource] = rhs.type }) ]

RECURSIVE holds_loop(_, _, _, _, _, _, _, _)
holds_loop(pm, otm, dtm, assertion, ord, i, count, updated) ==
    IF i > Len(ord) THEN Return(pm, count, updated, Elements(ord))
    ELSE LET st == holds_step(pm, otm, dtm, assertion, ord[i])
         IN  IF st.raised THEN Raise(st.predicate_map, Elements(ord))
             ELSE holds_loop(st.predicate_map, otm, dtm, assertion, ord, i + 1,
                             count + st.n,
                             IF st.n > 0 THEN updated \cup {ord[i]} ELSE updated)

\* ord is assertion_domain in the order the loop visits it
confidence_of(pm, otm, dtm, assertion, ord) ==
    holds_loop(pm, otm, dtm, assertion, ord, 1, 0, {})

\* "retrieve range based on assertion's domain", one entity
range_step(pm, otm, assertion, entity) ==
    IF assertion.predicate \notin DOMAIN pm
    THEN [ raised |-> TRUE, predicate_map |-> pm, add |-> {} ]
    ELSE LET res == Read(pm[assertion.predicate].forwards, entity)
             pm1 == Touched(pm, assertion.predicate, "forwards", entity)
             o2t == otm["object-to-type"]
         IN  IF \E resource \in res : resource \notin DOMAIN o2t
             THEN [ raised |-> TRUE, predicate_map |-> pm1, add |-> {} ]
             ELSE [ raised |-> FALSE, predicate_map |-> pm1,
                    add |-> { resource \in res : o2t[resource] = assertion.rhs.type } ]

RECURSIVE range_loop(_, _, _, _, _, _)
range_loop(pm, otm, assertion, ord, i, assertion_range) ==
    IF i > Len(ord) THEN Return(pm, 0, assertion_range, Elements(ord))
    ELSE LET st == range_step(pm, otm, assertion, ord[i])
         IN  IF st.raised THEN Raise(st.predicate_map, Elements(ord))
             ELSE range_loop(st.predicate_map, otm, assertion, ord, i + 1,
                             assertion_range \cup st.add)

\* the comparison flipped
below_flipped(n, min_support) == n > min_support

\* the threshold test "len(assertion_range) < min_support", "support < min_support"
below(n, min_support) == n < min_support

\* "update range based on connected assertions' domains": done = TRUE is the
\* early return (-1, set()) or the KeyError
RECURSIVE narrow_loop(_, _, _, _, _)
narrow_loop(pm, connections, i, assertion_range, min_support) ==
    IF i > Len(connections)
    THEN [ done |-> FALSE, raised |-> FALSE, range |-> assertion_range ]
    ELSE IF below(Cardinality(assertion_range), min_support)
    THEN [ done |-> TRUE, raised |-> FALSE, range |-> assertion_range ]
    ELSE IF connections[i].predicate \notin DOMAIN pm
    THEN [ done |-> TRUE, raised |-> TRUE, range |-> assertion_range ]
    ELSE narrow_loop(pm, connections, i + 1,
                     assertion_range \cap DOMAIN pm[connections[i].predicate].forwards,
                     min_support)

\* "update domain based on updated range"
RECURSIVE backwards_loop(_, _, _, _, _, _)
backwards_loop(pm, assertion, rs, i, support, updated) ==
    IF i > Len(rs) THEN [ predicate_map |-> pm, support |-> support, domain |-> updated ]
    ELSE LET domain_update == Read(pm[assertion.predicate].backwards, rs[i])
         IN  backwards_loop(Touched(pm, assertion.predicate, "backwards", rs[i]),
                            assertion, rs, i + 1,
                            support + Cardinality(domain_update),
                            updated \cup domain_update)

RECURSIVE support_of(_, _, _, _, _, _, _)
RECURSIVE recurse_loop(_, _, _, _, _, _, _, _)

\* "update range based on connected assertions' returned updated domains";
\* the range is one set object shared with every callee (connection_domain)
recurse_loop(pm, otm, dtm, graph_pattern, connections, i, assertion_range, min_support) ==
    IF i > Len(connections)
    THEN [ done |-> FALSE, raised |-> FALSE, predicate_map |-> pm, range |-> assertion_range ]
    ELSE IF below(Cardinality(assertion_range), min_support)
    THEN [ done |-> TRUE, raised |-> FALSE, predicate_map |-> pm, range |-> assertion_range ]
    ELSE LET r == support_of(pm, otm, dtm, graph_pattern, connections[i],
                             SetToSeq(assertion_range), min_support)
         IN  IF r.raised
             THEN [ done |-> TRUE, raised |-> TRUE, predicate_map |-> r.predicate_map,
                    range |-> r.assertion_domain ]
             ELSE IF below(r.support, min_support)
             THEN [ done |-> TRUE, raised |-> FALSE, predicate_map |-> r.predicate_map,
                    range |-> r.assertion_domain ]
             ELSE recurse_loop(r.predicate_map, otm, dtm, graph_pattern, connections, i + 1,
                               r.assertion_domain \cap r.domain, min_support)

\* ord is assertion_domain in the order a loop over it visits it
support_of(pm, otm, dtm, graph_pattern, assertion, ord, min_support) ==
    LET assertion_domain == Elements(ord)
        connections == graph_pattern.connections[assertion]
        identity == assertion.kind = "IdentityAssertion"
        \* the caller's set: an identity assertion works on it in place
        after(rng) == IF identity THEN rng ELSE assertion_domain
    IN  IF Len(connections) <= 0
        THEN IF identity
             THEN Return(pm, Cardinality(assertion_domain), assertion_domain, assertion_domain)
             ELSE holds_loop(pm, otm, dtm, assertion, ord, 1, 0, {})
        ELSE
        LET rg == IF identity THEN Return(pm, 0, assertion_domain, assertion_domain)
                  ELSE range_loop(pm, otm, assertion, ord, 1, {})
        IN  IF rg.raised THEN rg
            ELSE
            LET nw == narrow_loop(rg.predicate_map, connections, 1, rg.domain, min_support)
            IN  IF nw.done
                THEN IF nw.raised THEN Raise(rg.predicate_map, after(nw.range))
                     ELSE Return(rg.predicate_map, -1, {}, after(nw.range))
                ELSE
                LET rc == recurse_loop(rg.predicate_map, otm, dtm, graph_pattern,
                                       connections, 1, nw.range, min_support)
                IN  IF rc.done
                    THEN IF rc.raised THEN Raise(rc.predicate_map, after(rc.range))
                         ELSE Return(rc.predicate_map, -1, {}, after(rc.range))
                    ELSE IF identity
                    THEN Return(rc.predicate_map, Cardinality(rc.range), rc.range, rc.range)
                    ELSE LET bw == backwards_loop(rc.predicate_map, assertion,
                                                  SetToSeq(rc.range), 1, 0, {})
                         IN  Return(bw.predicate_map, bw.support, bw.domain, assertion_domain)

(***************************************************************************)
(* State machine                                                           *)
(***************************************************************************)
\* the assertions, patterns and domains the evaluators are called with
Predicates == {"p1", "p2"}
Thresholds == 0..MaxSupport
Assertions ==
    { Assertion(p, rhs) : p \in Predicates,
                          rhs \in { Term("x"), Term("l1"),
                                    ObjectTypeVariable(RDFS_Class), ObjectTypeVariable("T"),
                                    DataTypeVariable(XSD_string) } }
AllAssertions == Assertions \cup {IdentityAssertion}

\* assertions that have connections: the identity, or an object-type variable
Roots == { IdentityAssertion, Assertion("p1", ObjectTypeVariable(RDFS_Class)) }
ConnectionPool ==
    { Assertion("p1", Term("x")), Assertion("p2", Term("l1")),
      Assertion("p2", DataTypeVariable(XSD_string)) }

\* the sequences in which 1..MaxConnections assertions of pool are visited
ConnectionSeqs(pool) ==
    UNION { Orders(C) : C \in { D \in SUBSET pool : D # {} /\ Cardinality(D) <= MaxConnections } }

\* graph_pattern.connections of a pattern without connections, of a root with
\* leaves cs, and of a root with one connection c that has leaves cs
Star(root, cs) ==
    [ connections |-> [ A \in {root} \cup Elements(cs) |-> IF A = root THEN cs ELSE <<>> ] ]
Path(root, c, cs) ==
    [ connections |-> [ A \in {root, c} \cup Elements(cs) |->
                          IF A = root THEN <<c>> ELSE IF A = c THEN cs ELSE <<>> ] ]
Leaf(A) == Star(A, <<>>)

Calls ==
    { [ graph_pattern |-> Leaf(A), assertion |-> A ] : A \in AllAssertions }
    \cup { [ graph_pattern |-> Star(c[1], c[2]), assertion |-> c[1] ] :
             c \in Roots \X ConnectionSeqs(ConnectionPool) }
    \cup { [ graph_pattern |-> Path(IdentityAssertion, c[1], <<c[2]>>),
             assertion |-> IdentityAssertion ] :
             c \in (Roots \ {IdentityAssertion}) \X ConnectionPool }

DomainPool == {"a", "b", "x"}
Domains == { D \in SUBSET DomainPool : Cardinality(D) <= MaxDomain }

AllBuilt == {"predicate", "object", "data"}

NoCall ==
    [ op |-> "none", graph_pattern |-> Leaf(IdentityAssertion), assertion |-> IdentityAssertion,
      domain |-> {}, min_support |-> 0, before |-> <<>>,
      raised |-> FALSE, support |-> 0, result |-> {}, assertion_domain |-> {} ]

Called(op, call, D, m, r) ==
    [ op |-> op, graph_pattern |-> call.graph_pattern, assertion |-> call.assertion,
      domain |-> D, min_support |-> m, before |-> predicate_map,
      raised |-> r.raised, support |-> r.support, result |-> r.domain,
      assertion_domain |-> r.assertion_domain ]

Init ==
    /\ g \in Graphs
    /\ built = {}
    /\ predicate_map = <<>>
    /\ object_type_map = <<>>
    /\ data_type_map = <<>>
    /\ last = NoCall

GeneratePredicateMap ==
    /\ "predicate" \notin built
    /\ built' = built \cup {"predicate"}
    /\ predicate_map' = generate_predicate_map(g)
    /\ UNCHANGED <<g, object_type_map, data_type_map, last>>

GenerateObjectTypeMap ==
    /\ "object" \notin built
    /\ built' = built \cup {"object"}
    /\ \E val \in [ subjects(g) -> URIRefs \cup {None} ] :
          /\ \A e \in subjects(g) : val[e] \in value(g, e, RDF_type)
          /\ object_type_map' = generate_object_type_map(g, val)
    /\ UNCHANGED <<g, predicate_map, data_type_map, last>>

GenerateDataTypeMap ==
    /\ "data" \notin built
    /\ built' = built \cup {"data"}
    /\ \E os \in Orders(objects(g)) : data_type_map' = generate_data_type_map(os)
    /\ UNCHANGED <<g, predicate_map, object_type_map, last>>

\* one call of confidence_of on the indexes as they are
Confidence(assertions, domains) ==
    /\ built = AllBuilt
    /\ \E assertion \in assertions, D \in domains : \E ord \in Orders(D) :
          LET r == confidence_of(predicate_map, object_type_map, data_type_map,
                                 assertion, ord)
          IN  /\ predicate_map' = r.predicate_map
              /\ last' = Called("confidence_of",
                                [ graph_pattern |-> Leaf(assertion), assertion |-> assertion ], D, 0, r)
    /\ UNCHANGED <<g, built, object_type_map, data_type_map>>

\* one call of support_of on the indexes as they are
Support(calls, domains, thresholds) ==
    /\ built = AllBuilt
    /\ \E call \in calls, D \in domains, min_support \in thresholds : \E ord \in Orders(D) :
          LET r == support_of(predicate_map, object_type_map, data_type_map,
                              call.graph_pattern, call.assertion, ord, min_support)
          IN  /\ predicate_map' = r.predicate_map
              /\ last' = Called("support_of", call, D, min_support, r)
    /\ UNCHANGED <<g, built, object_type_map, data_type_map>>

ConfidenceOf == last.op = "none" /\ Confidence(Assertions, Domains)
SupportOf == last.op = "none" /\ Support(Calls, Domains, Thresholds)

Next ==
    \/ GeneratePredicateMap
    \/ GenerateObjectTypeMap
    \/ GenerateDataTypeMap
    \/ ConfidenceOf
    \/ SupportOf

Spec == Init /\ [][Next]_vars

\* the same builders followed by any number of evaluator calls on the shared
\* indexes, over the patterns rooted at the identity
SeqAssertions == { A \in ConnectionPool : A.predicate = "p2" }
SeqCalls ==
    { c \in Calls :
        /\ c.assertion = IdentityAssertion \/ c.assertion \in SeqAssertions
        /\ \A i \in DOMAIN c.graph_pattern.connections[c.assertion] :
              /\ c.graph_pattern.connections[c.assertion][i] \in SeqAssertions
              /\ c.graph_pattern.connections[c.graph_pattern.connections[c.assertion][i]] = <<>> }
SeqDomains == { D \in Domains : D # {} /\ D \subseteq {"b", "x"} }

ConfidenceOfAgain == Confidence(SeqAssertions, SeqDomains)
SupportOfAgain == Support(SeqCalls, SeqDomains, {MaxSupport})

NextSeq ==
    \/ GeneratePredicateMap
    \/ GenerateObjectTypeMap
    \/ GenerateDataTypeMap
    \/ ConfidenceOfAgain
    \/ SupportOfAgain

SpecSeq == Init /\ [][NextSeq]_vars

(***************************************************************************)
(* Properties                                                              *)
(***************************************************************************)
connections_of_last == last.graph_pattern.connections[last.assertion]
MinusOne(r) == ~r.raised /\ r.support = -1

\* the call of last, repeated on index pm with connections cs and threshold m
Again(pm, cs, m) ==
    support_of(pm, object_type_map, data_type_map,
               [ connections |-> [ last.graph_pattern.connections
                                     EXCEPT ![last.assertion] = cs ] ],
               last.assertion, SetToSeq(last.domain), m)

\* resource x satisfies assertion c in graph g
Satisfies(x, c) ==
    \E t \in g :
        /\ t[1] = x /\ t[2] = c.predicate
        /\ CASE c.rhs.kind = "Term" -> t[3] = c.rhs.type
             [] c.rhs.kind = "ObjectTypeVariable" ->
                    /\ t[3] \in DOMAIN object_type_map["object-to-type"]
                    /\ object_type_map["object-to-type"][t[3]] = c.rhs.type
             [] c.rhs.kind = "DataTypeVariable" ->
                    /\ t[3] \in DOMAIN data_type_map["object-to-type"]
                    /\ data_type_map["object-to-type"][t[3]] = c.rhs.type

\* C1: a support_of call that returns yields -1 with the empty set, or a
\* support of at least min_support
C1_BelowThresholdIsMinusOne ==
    (last.op = "support_of" /\ ~last.raised) =>
        \/ last.support = -1 /\ last.result = {}
        \/ last.support >= last.min_support

\* C2: S of claim C2, read off the index the call was given
C2_S == { e \in last.domain :
            last.assertion.rhs.type \in Read(last.before[last.assertion.predicate].forwards, e) }
C2_Case ==
    /\ last.op = "support_of"
    /\ last.assertion.kind = "Assertion"
    /\ last.assertion.rhs.kind = "Term"
    /\ connections_of_last = <<>>
    /\ last.assertion.predicate \in DOMAIN last.before
    /\ Cardinality(C2_S) >= last.min_support

C3_CountIsMatchedDomain ==
    ( /\ last.op \in {"confidence_of", "support_of"}
      /\ connections_of_last = <<>>
      /\ ~last.raised ) => last.support = Cardinality(last.result)

\* C4: S of claim C4, read off the graph
C4_S == { e \in last.domain :
            \E t \in g :
                /\ t[1] = e /\ t[2] = last.assertion.predicate
                /\ t[3] \in DOMAIN object_type_map["object-to-type"]
                /\ object_type_map["object-to-type"][t[3]] = last.assertion.rhs.type
                /\ \A i \in DOMAIN connections_of_last :
                       Satisfies(t[3], connections_of_last[i]) }

\* C4: an object-type assertion with leaf connections yields (|S|, S) unless
\* it yields -1
C4_InternalSupport ==
    ( /\ last.op = "support_of"
      /\ last.assertion.kind = "Assertion"
      /\ connections_of_last # <<>>
      /\ ~last.raised
      /\ last.support # -1 ) => last.support = Cardinality(C4_S) /\ last.result = C4_S

\* C5: an evaluator call leaves the indexes and the caller's domain as they were
C5_InputsUnchanged ==
    last.op # "none" =>
        /\ predicate_map = generate_predicate_map(g)
        /\ last.assertion_domain = last.domain

\* C6: a support_of call that returns on indexes used before returns what it
\* returns on freshly built indexes
C6_NoHiddenState ==
    last.op = "support_of" =>
        LET fresh == Again(generate_predicate_map(g), connections_of_last, last.min_support)
        IN  (~last.raised /\ ~fresh.raised) =>
                last.support = fresh.support /\ last.result = fresh.domain

\* C7: raising min_support keeps a -1 and otherwise either gives -1 or the
\* same (support, matched domain)
C7_ThresholdMonotone ==
    last.op = "support_of" =>
        \A m \in last.min_support..(MaxSupport + 1) :
            LET higher == Again(last.before, connections_of_last, m)
            IN  /\ MinusOne(last) => MinusOne(higher)
                /\ (~higher.raised /\ higher.support # -1) =>
                       /\ ~last.raised
                       /\ last.support = higher.support
                       /\ last.result = higher.domain

\* C7 witness: a pattern with connections that passes its threshold and is cut
\* by a higher one
C7_Witness ==
    /\ last.op = "support_of"
    /\ connections_of_last # <<>>
    /\ ~last.raised /\ last.support >= 1
    /\ \E m \in last.min_support..(MaxSupport + 1) :
          MinusOne(Again(last.before, connections_of_last, m))

\* C8: with a concrete rhs only adjacency is looked up, and no such call raises
C8_NoMissingEntry ==
    ( /\ last.op \in {"confidence_of", "support_of"}
      /\ connections_of_last = <<>>
      /\ last.assertion.rhs.kind = "Term" ) => ~last.raised

Inverse(m) ==
    /\ \A r \in DOMAIN m["object-to-type"] : m["object-to-type"][r] \in DOMAIN m["type-to-object"]
    /\ \A t \in DOMAIN m["type-to-object"] :
          m["type-to-object"][t] = { r \in DOMAIN m["object-to-type"] : m["object-to-type"][r] = t }

\* C9: in both type maps type-to-object is the inverse of object-to-type
C9_TypeMapsInverse ==
    /\ "object" \in built => Inverse(object_type_map)
    /\ "data" \in built => Inverse(data_type_map)

\* C10: visiting the connections in another order gives the same result
C10_OrderIndependent ==
    (last.op = "support_of" /\ Len(connections_of_last) >= 2 /\ ~last.raised) =>
        \A cs \in Orders(Elements(connections_of_last)) :
            LET other == Again(last.before, cs, last.min_support)
            IN  ~other.raised => last.support = other.support /\ last.result = other.domain

====
